---- MODULE Spec2Model ----
(***************************************************************************)
(* The search-enabled picker of go-choice (src/choice.go): Pick, pick, its  *)
(* event loop, move / moveUp / moveDown and computePageSize (Spec and      *)
(* PickSpec); and the earlier picker without search                        *)
(* (src/unnamed/part_000): its loop, move, createScreen and render         *)
(* (EarlierSpec).                                                          *)
(*                                                                         *)
(* Strings are sequences of bytes (a byte is written as a short string).   *)
(* A pointer to a Choice is its 1-based position in `choices`; nil is 0.   *)
(***************************************************************************)
EXTENDS Integers, Sequences, FiniteSets, TLC

\* ------------------------------------------------------------------ bounds
MaxChoices == 3      \* longest choicesToPickFrom
MaxQuery == 2        \* longest searchQuery, in bytes
MaxRows == 3         \* tallest terminal
MaxNewlines == 1     \* most "\n" in the question

\* ------------------------------------------------------------------ inputs
\* The runes a KeyRune event can carry: two one-byte runes, both letters the
\* earlier picker binds to an action ('k': up, 'q': quit), and one rune whose
\* UTF-8 encoding is two bytes (U+00E9).
Runes == {"k", "q", "U+00E9"}

\* The choice values pick is called with.
Values == {<<"k">>, <<"k", "q">>, <<"C3", "A9">>}

RECURSIVE SeqsUpTo(_, _)
SeqsUpTo(S, n) ==
    IF n = 0 THEN {<<>>}
    ELSE LET shorter == SeqsUpTo(S, n - 1)
         IN  shorter \cup {Append(s, x) : s \in shorter, x \in S}

ChoiceLists == SeqsUpTo(Values, MaxChoices)

\* A question of k+1 lines.
RECURSIVE QuestionOf(_)
QuestionOf(k) == IF k = 0 THEN <<"q">> ELSE QuestionOf(k - 1) \o <<"\n", "q">>

Questions == {QuestionOf(k) : k \in 0..MaxNewlines}

\* ------------------------------------------------------------- Go helpers
nil == 0

\* string(ev.Rune()): the UTF-8 encoding of the rune.
RuneToString(r) == IF r = "U+00E9" THEN <<"C3", "A9">> ELSE <<r>>

\* strings.Contains(s, substr), byte-wise.
Contains(s, substr) ==
    \E k \in 0..(Len(s) - Len(substr)) : SubSeq(s, k + 1, k + Len(substr)) = substr

\* strings.Split(s, sep) for a one-byte sep.
RECURSIVE Split(_, _)
Split(s, sep) ==
    IF \A k \in 1..Len(s) : s[k] # sep THEN <<s>>
    ELSE LET k == CHOOSE j \in 1..Len(s) :
                     s[j] = sep /\ \A h \in 1..(j - 1) : s[h] # sep
         IN  <<SubSeq(s, 1, k - 1)>> \o Split(SubSeq(s, k + 1, Len(s)), sep)

\* --------------------------------------------------------------- errors
ErrNoChoiceSelected == "no choice selected"
ErrNoChoice == "no choices to choose from"
NoError == "nil"

\* ------------------------------------------------------ pick: construction
NewChoices_OneBasedId(choicesToPickFrom) ==
    [i \in 1..Len(choicesToPickFrom) |->
        [Id |-> i, Value |-> choicesToPickFrom[i],
         Selected |-> (i = 1), hidden |-> FALSE]]

\* for i, choice := range choicesToPickFrom { append(&Choice{Id: i, ...}) }
NewChoices(choicesToPickFrom) ==
    [i \in 1..Len(choicesToPickFrom) |->
        [Id |-> i - 1, Value |-> choicesToPickFrom[i],
         Selected |-> (i - 1 = 0), hidden |-> FALSE]]

\* ------------------------------------------------------------------ render
\* What render does to the choices: the hidden flags follow the query.
render(choices, searchQuery) ==
    [i \in 1..Len(choices) |->
        [choices[i] EXCEPT !.hidden = ~Contains(choices[i].Value, searchQuery)]]

\* --------------------------------------------------------- computePageSize
computePageSize_NoFallback(height, question) ==
    height - (Len(Split(question, "\n")) + 1)

\* The test written height >= questionLines: a screen exactly as tall as the
\* question gives -1.
computePageSize_AtLeast(height, question) ==
    LET questionLines == Len(Split(question, "\n"))
    IN  IF height >= questionLines THEN height - (questionLines + 1) ELSE height

computePageSize(height, question) ==
    LET questionLines == Len(Split(question, "\n"))
    IN  IF height > questionLines THEN height - (questionLines + 1) ELSE height

\* -------------------------------------------------------------------- move
\* The positions of the choices that are not hidden, in order.
NotHidden(choices) ==
    SelectSeq([i \in 1..Len(choices) |-> i], LAMBDA p : ~choices[p].hidden)

\* The first loop of move without its else branch: a hidden choice stays selected.
UnselectHidden_Keep(choices) == choices

\* The first loop of move: a hidden choice loses its Selected flag.
UnselectHidden(choices) ==
    [p \in 1..Len(choices) |->
        IF choices[p].hidden /\ choices[p].Selected
        THEN [choices[p] EXCEPT !.Selected = FALSE]
        ELSE choices[p]]

\* The flag set on the target and never cleared on the choice it came from.
Reselect_KeepOld(choices, from, to) == [choices EXCEPT ![to].Selected = TRUE]

\* choicesNotHidden[from].Selected = false; choicesNotHidden[to].Selected = true
Reselect(choices, from, to) ==
    [[choices EXCEPT ![from].Selected = FALSE] EXCEPT ![to].Selected = TRUE]

MoveResult(choices, ret, panic) == [choices |-> choices, ret |-> ret, panic |-> panic]

\* move as the earlier picker has it: a step past either end moves nothing.
move_NoClamp(choices, increment) ==
    LET cleared == UnselectHidden(choices)
        choicesNotHidden == NotHidden(choices)
        L == Len(choicesNotHidden)
        sel == {i \in 0..(L - 1) : choices[choicesNotHidden[i + 1]].Selected}
    IN  IF L = 0 THEN MoveResult(cleared, nil, FALSE)
        ELSE IF sel = {}
        THEN MoveResult([cleared EXCEPT ![choicesNotHidden[1]].Selected = TRUE],
                        choicesNotHidden[1], FALSE)
        ELSE LET i == CHOOSE x \in sel : \A y \in sel : x <= y
             IN  IF i + increment < L /\ i + increment >= 0
                 THEN MoveResult(Reselect(cleared, choicesNotHidden[i + 1],
                                          choicesNotHidden[i + increment + 1]),
                                 choicesNotHidden[i + increment + 1], FALSE)
                 ELSE MoveResult(cleared, choicesNotHidden[i + 1], FALSE)

\* move that answers choices[0] when every choice is hidden.
move_NeverNil(choices, increment) ==
    LET cleared == UnselectHidden(choices)
        choicesNotHidden == NotHidden(choices)
        L == Len(choicesNotHidden)
        sel == {i \in 0..(L - 1) : choices[choicesNotHidden[i + 1]].Selected}
    IN  IF L = 0 THEN MoveResult(cleared, 1, FALSE)
        ELSE IF sel = {}
        THEN MoveResult([cleared EXCEPT ![choicesNotHidden[1]].Selected = TRUE],
                        choicesNotHidden[1], FALSE)
        ELSE LET i == CHOOSE x \in sel : \A y \in sel : x <= y
             IN  IF i + increment < L /\ i + increment > 0
                 THEN MoveResult(Reselect(cleared, choicesNotHidden[i + 1],
                                          choicesNotHidden[i + increment + 1]),
                                 choicesNotHidden[i + increment + 1], FALSE)
                 ELSE IF i + increment >= L
                 THEN MoveResult(Reselect(cleared, choicesNotHidden[i + 1],
                                          choicesNotHidden[L]),
                                 choicesNotHidden[L], FALSE)
                 ELSE MoveResult(Reselect(cleared, choicesNotHidden[i + 1],
                                          choicesNotHidden[1]),
                                 choicesNotHidden[1], FALSE)

move(choices, increment) ==
    LET cleared == UnselectHidden(choices)
        choicesNotHidden == NotHidden(choices)
        L == Len(choicesNotHidden)
        \* 0-based indexes into choicesNotHidden of the selected entries
        sel == {i \in 0..(L - 1) : choices[choicesNotHidden[i + 1]].Selected}
        selectedChoiceExists == sel # {}
    IN  IF L = 0 THEN MoveResult(cleared, nil, FALSE)
        ELSE IF ~selectedChoiceExists
        THEN MoveResult([cleared EXCEPT ![choicesNotHidden[1]].Selected = TRUE],
                        choicesNotHidden[1], FALSE)
        ELSE IF sel = {} THEN MoveResult(cleared, nil, TRUE)   \* panic
        ELSE LET i == CHOOSE x \in sel : \A y \in sel : x <= y
             IN  IF i + increment < L /\ i + increment > 0
                 THEN MoveResult(Reselect(cleared, choicesNotHidden[i + 1],
                                          choicesNotHidden[i + increment + 1]),
                                 choicesNotHidden[i + increment + 1], FALSE)
                 ELSE IF i + increment >= L
                 THEN MoveResult(Reselect(cleared, choicesNotHidden[i + 1],
                                          choicesNotHidden[L]),
                                 choicesNotHidden[L], FALSE)
                 ELSE IF i + increment <= 0
                 THEN MoveResult(Reselect(cleared, choicesNotHidden[i + 1],
                                          choicesNotHidden[1]),
                                 choicesNotHidden[1], FALSE)
                 ELSE MoveResult(cleared, choicesNotHidden[i + 1], FALSE)

moveUp(choices, step) == move(choices, -step)

moveDown(choices, step) == move(choices, step)

\* ------------------------------------------------------------------- state
VARIABLES
    choicesToPickFrom,  \* pick's argument
    question,           \* pick's argument
    rows,               \* the height screen.Size() reports
    choices,            \* the []*Choice pick builds
    selectedChoice,     \* the *Choice the loop and the caller share
    searchQuery,        \* the query typed so far
    pc,                 \* "entry" | "loop" | "poll" | "quit" | "returned" | "panic"
    ev,                 \* the event the current iteration received
    result,             \* what pick (or Pick) returned
    effects,            \* what pick has done so far: "go", "render", "PollEvent", "close"
    screen,             \* the tcell.Screen: "none" | "created" | "ready" | "finished"
    inflight,           \* the render calls that have started and not yet completed
    pending,            \* earlier picker: the selectedChoice of each go render not yet run
    drawn               \* earlier picker: what the last render to run put on the screen

vars == <<choicesToPickFrom, question, rows, choices, selectedChoice, searchQuery,
          pc, ev, result, effects, screen, inflight, pending, drawn>>

\* What only the earlier picker (src/unnamed/part_000) writes.
earlier == <<pending, drawn>>

\* The screen before any render has run.
NoDrawing == [height |-> 0, selected |-> 0, lines |-> <<>>]

NoEvent == [type |-> "none", key |-> "none", rune |-> "none"]

EventKey(key) == [type |-> "EventKey", key |-> key, rune |-> "none"]

EventRune(r) == [type |-> "EventKey", key |-> "KeyRune", rune |-> r]

EventResize == [type |-> "EventResize", key |-> "none", rune |-> "none"]

NoResult == [value |-> <<>>, id |-> 0, err |-> "pending"]

Init ==
    /\ choicesToPickFrom \in ChoiceLists
    /\ question \in Questions
    /\ rows \in 0..MaxRows
    /\ choices = <<>>
    /\ selectedChoice = nil
    /\ searchQuery = <<>>
    /\ pc = "entry"
    /\ ev = NoEvent
    /\ result = NoResult
    /\ effects = {}
    /\ screen = "ready"
    /\ inflight = 0
    /\ pending = {}
    /\ drawn = NoDrawing

\* ---------------------------------------------------------------- handlers
\* The part of the loop's state a key handler reads and writes.
Session == [choices |-> choices, selectedChoice |-> selectedChoice,
            searchQuery |-> searchQuery, panic |-> FALSE]

\* selectedChoice = move...(choices, step)
Moved(st, m) ==
    [choices |-> m.choices, selectedChoice |-> m.ret,
     searchQuery |-> st.searchQuery, panic |-> m.panic]

OnKeyUp(st) == Moved(st, moveUp(st.choices, 1))

OnKeyDown(st) == Moved(st, moveDown(st.choices, 1))

OnKeyHome(st) == Moved(st, moveUp(st.choices, Len(st.choices)))

OnKeyEnd(st) == Moved(st, moveDown(st.choices, Len(st.choices)))

OnKeyPgUp(st, height, q) == Moved(st, moveUp(st.choices, computePageSize(height, q)))

OnKeyPgDn(st, height, q) == Moved(st, moveDown(st.choices, computePageSize(height, q)))

\* Backspace whose length test guards only the slice.
OnKeyBackspace_AlwaysReset(st) ==
    LET q == IF Len(st.searchQuery) > 0
             THEN SubSeq(st.searchQuery, 1, Len(st.searchQuery) - 1)
             ELSE st.searchQuery
        shown == render(st.choices, q)
    IN  Moved([st EXCEPT !.searchQuery = q], moveUp(shown, Len(shown)))

\* Backspace that leaves the selection where it was.
OnKeyBackspace_NoReset(st) ==
    IF Len(st.searchQuery) > 0
    THEN LET q == SubSeq(st.searchQuery, 1, Len(st.searchQuery) - 1)
         IN  [st EXCEPT !.searchQuery = q, !.choices = render(st.choices, q)]
    ELSE st

OnKeyBackspace(st) ==
    IF Len(st.searchQuery) > 0
    THEN LET q == SubSeq(st.searchQuery, 1, Len(st.searchQuery) - 1)
             shown == render(st.choices, q)
         IN  Moved([st EXCEPT !.searchQuery = q], moveUp(shown, Len(shown)))
    ELSE st

\* KeyRune that renders before it appends: the flags lag one edit behind.
OnKeyRune_StaleRender(st, r) ==
    LET q == st.searchQuery \o RuneToString(r)
        shown == render(st.choices, st.searchQuery)
    IN  Moved([st EXCEPT !.searchQuery = q], moveUp(shown, Len(shown)))

\* KeyRune that leaves the selection where it was.
OnKeyRune_NoReset(st, r) ==
    LET q == st.searchQuery \o RuneToString(r)
    IN  [st EXCEPT !.searchQuery = q, !.choices = render(st.choices, q)]

\* KeyRune with the earlier picker's switch on the rune in front of the append.
OnKeyRune_LetterKeys(st, r) ==
    IF r \in {"k", "w"} THEN Moved(st, moveUp(st.choices, 1))
    ELSE IF r \in {"j", "s"} THEN Moved(st, moveDown(st.choices, 1))
    ELSE IF r = "q" THEN [st EXCEPT !.selectedChoice = nil]
    ELSE LET q == st.searchQuery \o RuneToString(r)
             shown == render(st.choices, q)
         IN  Moved([st EXCEPT !.searchQuery = q], moveUp(shown, Len(shown)))

OnKeyRune(st, r) ==
    LET q == st.searchQuery \o RuneToString(r)
        shown == render(st.choices, q)
    IN  Moved([st EXCEPT !.searchQuery = q], moveUp(shown, Len(shown)))

\* Abort that forgets to clear selectedChoice.
OnAbort_KeepSelection(st) == st

OnAbort(st) == [st EXCEPT !.selectedChoice = nil]

\* ------------------------------------------------------------ pick's ends
\* The empty-list test answering with the other error value.
EntryError_WrongError(list) == IF Len(list) = 0 THEN ErrNoChoiceSelected ELSE NoError

\* if len(choicesToPickFrom) == 0 { return "", 0, ErrNoChoice }
EntryError(list) == IF Len(list) = 0 THEN ErrNoChoice ELSE NoError

\* The return that answers with the position among the visible choices.
Returned_VisibleIndex(cs, sel) ==
    IF sel = nil THEN [value |-> <<>>, id |-> 0, err |-> ErrNoChoiceSelected]
    ELSE [value |-> cs[sel].Value,
          id |-> Cardinality({p \in 1..(sel - 1) : ~cs[p].hidden}),
          err |-> NoError]

\* What pick returns once quit is closed.
Returned(cs, sel) ==
    IF sel = nil THEN [value |-> <<>>, id |-> 0, err |-> ErrNoChoiceSelected]
    ELSE [value |-> cs[sel].Value, id |-> cs[sel].Id, err |-> NoError]

\* ----------------------------------------------------------------- actions
\* pick up to the start of the loop task.
PickEntry ==
    /\ pc = "entry"
    /\ IF EntryError(choicesToPickFrom) # NoError
       THEN /\ pc' = "returned"
            /\ result' = [value |-> <<>>, id |-> 0, err |-> EntryError(choicesToPickFrom)]
            /\ UNCHANGED <<choices, selectedChoice, effects>>
       ELSE /\ choices' = NewChoices(choicesToPickFrom)
            /\ selectedChoice' = 1
            /\ effects' = effects \cup {"go"}
            /\ pc' = "loop"
            /\ UNCHANGED result
    /\ UNCHANGED <<choicesToPickFrom, question, rows, searchQuery, ev, screen, inflight, earlier>>

\* go render(...), as the earlier picker starts it: the call returns with the
\* render still running.
RenderCall_Go(n) == n + 1

\* The renders in flight after the statement render(...): a plain call, which
\* has run to its screen.Sync() when it returns.
RenderCall(n) == n

\* Whether the handler of event e calls render, the query being q.
Renders(e, q) == e.key = "KeyRune" \/ (e.key \in {"KeyBackspace", "KeyBackspace2"} /\ Len(q) > 0)

\* The render that opens each iteration of the loop.
LoopRender ==
    /\ pc = "loop"
    /\ choices' = render(choices, searchQuery)
    /\ inflight' = RenderCall(inflight)
    /\ effects' = effects \cup {"render"}
    /\ ev' = NoEvent
    /\ pc' = "poll"
    /\ UNCHANGED <<choicesToPickFrom, question, rows, selectedChoice, searchQuery, result,
                   screen, earlier>>

\* The iteration handled event e and left the session as st.
Handled(e, st) ==
    /\ ev' = e
    /\ effects' = effects \cup {"PollEvent"}
    /\ choices' = st.choices
    /\ selectedChoice' = st.selectedChoice
    /\ searchQuery' = st.searchQuery
    /\ pc' = IF st.panic THEN "panic" ELSE "loop"
    /\ inflight' = IF Renders(e, searchQuery) THEN RenderCall(inflight) ELSE inflight
    /\ UNCHANGED <<choicesToPickFrom, question, result, screen, earlier>>

\* The terminating case without its return: quit is closed and the loop goes on.
Quit_NoReturn(e, st) ==
    /\ ev' = e
    /\ effects' = effects \cup {"PollEvent", "close"}
    /\ choices' = st.choices
    /\ selectedChoice' = st.selectedChoice
    /\ searchQuery' = st.searchQuery
    /\ pc' = "loop"
    /\ UNCHANGED <<choicesToPickFrom, question, result, screen, inflight, earlier>>

\* The iteration handled event e, closed quit and returned.
Quit(e, st) ==
    /\ ev' = e
    /\ effects' = effects \cup {"PollEvent", "close"}
    /\ choices' = st.choices
    /\ selectedChoice' = st.selectedChoice
    /\ searchQuery' = st.searchQuery
    /\ pc' = "quit"
    /\ UNCHANGED <<choicesToPickFrom, question, result, screen, inflight, earlier>>

KeyUp == pc = "poll" /\ Handled(EventKey("KeyUp"), OnKeyUp(Session)) /\ UNCHANGED rows

KeyDown == pc = "poll" /\ Handled(EventKey("KeyDown"), OnKeyDown(Session)) /\ UNCHANGED rows

KeyHome == pc = "poll" /\ Handled(EventKey("KeyHome"), OnKeyHome(Session)) /\ UNCHANGED rows

KeyEnd == pc = "poll" /\ Handled(EventKey("KeyEnd"), OnKeyEnd(Session)) /\ UNCHANGED rows

KeyPgUp ==
    /\ pc = "poll"
    /\ Handled(EventKey("KeyPgUp"), OnKeyPgUp(Session, rows, question))
    /\ UNCHANGED rows

KeyPgDn ==
    /\ pc = "poll"
    /\ Handled(EventKey("KeyPgDn"), OnKeyPgDn(Session, rows, question))
    /\ UNCHANGED rows

KeyBackspace ==
    /\ pc = "poll"
    /\ \E k \in {"KeyBackspace", "KeyBackspace2"} :
           Handled(EventKey(k), OnKeyBackspace(Session))
    /\ UNCHANGED rows

KeyConfirm ==
    /\ pc = "poll"
    /\ \E k \in {"KeyEnter", "KeyRight"} : Quit(EventKey(k), Session)
    /\ UNCHANGED rows

KeyAbort ==
    /\ pc = "poll"
    /\ \E k \in {"KeyEscape", "KeyCtrlC", "KeyLeft"} : Quit(EventKey(k), OnAbort(Session))
    /\ UNCHANGED rows

KeyRune ==
    /\ pc = "poll"
    /\ \E r \in Runes :
           /\ Len(searchQuery) + Len(RuneToString(r)) <= MaxQuery
           /\ Handled(EventRune(r), OnKeyRune(Session, r))
    /\ UNCHANGED rows

\* A key no case of the switch names.
KeyOther == pc = "poll" /\ Handled(EventKey("KeyTab"), Session) /\ UNCHANGED rows

\* The terminal changed its height; the loop calls screen.Sync().
Resize ==
    /\ pc = "poll"
    /\ rows' \in 0..MaxRows
    /\ Handled(EventResize, Session)

\* <-quit, then the caller's return.
PickReturn ==
    /\ pc = "quit"
    /\ result' = Returned(choices, selectedChoice)
    /\ pc' = "returned"
    /\ UNCHANGED <<choicesToPickFrom, question, rows, choices, selectedChoice,
                   searchQuery, ev, effects, screen, inflight, earlier>>

Next ==
    \/ PickEntry
    \/ LoopRender
    \/ KeyUp
    \/ KeyDown
    \/ KeyHome
    \/ KeyEnd
    \/ KeyPgUp
    \/ KeyPgDn
    \/ KeyBackspace
    \/ KeyConfirm
    \/ KeyAbort
    \/ KeyRune
    \/ KeyOther
    \/ Resize
    \/ PickReturn

Spec == Init /\ [][Next]_vars

\* -------------------------------------------------------------------- Pick
\* What tcell can answer createScreen: NewScreen fails, NewScreen succeeds and
\* Init fails, or both succeed.
ScreenOutcomes == {"NewScreenFails", "InitFails", "Ready"}

\* createScreen: the screen it leaves behind and the error it returns.
createScreen(outcome) ==
    IF outcome = "NewScreenFails"
    THEN [screen |-> "none", err |-> "failed to create new screen"]
    ELSE IF outcome = "InitFails"
    THEN [screen |-> "created", err |-> "failed to initialize screen"]
    ELSE [screen |-> "ready", err |-> NoError]

\* Pick is called: no screen exists yet.
PickInit ==
    /\ choicesToPickFrom \in ChoiceLists
    /\ question \in Questions
    /\ rows \in 0..MaxRows
    /\ choices = <<>>
    /\ selectedChoice = nil
    /\ searchQuery = <<>>
    /\ pc = "Pick"
    /\ ev = NoEvent
    /\ result = NoResult
    /\ effects = {}
    /\ screen = "none"
    /\ inflight = 0
    /\ pending = {}
    /\ drawn = NoDrawing

\* screen, err := createScreen(); if err != nil { return "", 0, err }
PickCreateScreen ==
    /\ pc = "Pick"
    /\ \E outcome \in ScreenOutcomes :
           LET created == createScreen(outcome)
           IN  /\ screen' = created.screen
               /\ IF created.err # NoError
                  THEN /\ pc' = "done"
                       /\ result' = [value |-> <<>>, id |-> 0, err |-> created.err]
                  ELSE /\ pc' = "entry"
                       /\ UNCHANGED result
    /\ UNCHANGED <<choicesToPickFrom, question, rows, choices, selectedChoice,
                   searchQuery, ev, effects, inflight, earlier>>

\* defer screen.Fini(), run as Pick returns what pick returned.
PickDeferredFini ==
    /\ pc = "returned"
    /\ screen' = "finished"
    /\ pc' = "done"
    /\ UNCHANGED <<choicesToPickFrom, question, rows, choices, selectedChoice,
                   searchQuery, ev, result, effects, inflight, earlier>>

PickNext ==
    \/ PickCreateScreen
    \/ PickDeferredFini
    \/ Next

PickSpec == PickInit /\ [][PickNext]_vars

\* ---------------------------------------------------- the earlier picker
\* src/unnamed/part_000: the picker without search. It starts each render with
\* a go statement, binds letter keys, and moves one choice at a time.
MaxOptions == 4      \* longest choicesToPickFrom of the earlier picker

\* The earlier picker reads no choice value: the lists differ in length only.
EarlierChoiceLists == {[i \in 1..n |-> <<"k">>] : n \in 0..MaxOptions}

\* move of the earlier picker: a step that would leave the list moves nothing.
earlierMove(options, increment) ==
    LET sel == {i \in 0..(Len(options) - 1) : options[i + 1].Selected}
    IN  IF sel = {} THEN MoveResult(options, nil, TRUE)   \* panic
        ELSE LET i == CHOOSE x \in sel : \A y \in sel : x <= y
             IN  IF i + increment < Len(options) /\ i + increment >= 0
                 THEN MoveResult(Reselect(options, i + 1, i + increment + 1),
                                 i + increment + 1, FALSE)
                 ELSE MoveResult(options, i + 1, FALSE)

earlierMoveUp(options) == earlierMove(options, -1)

earlierMoveDown(options) == earlierMove(options, 1)

\* The lines render prints, in order: line k goes to screen row k - 1 (a row
\* the screen does not have is dropped by SetCell). Which option carries the
\* "> " marker is left out: render reads option.Selected while the loop task
\* may be writing it, and the window does not depend on it.
renderLines(maximumThatCanBeDisplayed, q, options, selected) ==
    LET questionLines == Split(q, "\n")
        selectedId == options[selected].Id
        max == maximumThatCanBeDisplayed
        min == IF selectedId > max
               THEN selectedId + Len(questionLines) + 1
               ELSE selectedId + Len(questionLines)
        skipped(o) == /\ o.Id <= (min + 1) - maximumThatCanBeDisplayed
                      /\ ~(o.Id > (min + 1) - maximumThatCanBeDisplayed)
        printed == SelectSeq(options, LAMBDA o : ~skipped(o))
    IN  [k \in 1..Len(questionLines) |-> [kind |-> "question", id |-> k - 1]]
        \o [k \in 1..Len(printed) |-> [kind |-> "option", id |-> printed[k].Id]]

EarlierInit ==
    /\ choicesToPickFrom \in EarlierChoiceLists
    /\ question \in Questions
    /\ rows \in 0..MaxRows
    /\ choices = <<>>
    /\ selectedChoice = nil
    /\ searchQuery = <<>>
    /\ pc = "entry"
    /\ ev = NoEvent
    /\ result = NoResult
    /\ effects = {}
    /\ screen = "ready"
    /\ inflight = 0
    /\ pending = {}
    /\ drawn = NoDrawing

\* What no step of the earlier picker's loop writes.
earlierFrame == <<choicesToPickFrom, question, searchQuery, result, screen, inflight>>

EarlierPickEntry ==
    /\ pc = "entry"
    /\ IF Len(choicesToPickFrom) = 0
       THEN /\ pc' = "returned"
            /\ result' = [value |-> <<>>, id |-> 0, err |-> "no choices to choose from"]
            /\ UNCHANGED <<choices, selectedChoice, effects>>
       ELSE /\ choices' = NewChoices(choicesToPickFrom)
            /\ selectedChoice' = 1
            /\ effects' = effects \cup {"go"}
            /\ pc' = "loop"
            /\ UNCHANGED result
    /\ UNCHANGED <<choicesToPickFrom, question, rows, searchQuery, ev, screen, inflight,
                   earlier>>

\* go render(screen, question, choices, config, selectedChoice)
EarlierGoRender ==
    /\ pc = "loop"
    /\ pending' = pending \cup {selectedChoice}
    /\ effects' = effects \cup {"go render"}
    /\ ev' = NoEvent
    /\ pc' = "poll"
    /\ UNCHANGED <<earlierFrame, rows, choices, selectedChoice, drawn>>

\* One of the renders started runs, with the height the screen has by then.
EarlierRenderRuns ==
    /\ \E p \in pending :
           /\ drawn' = [height |-> rows, selected |-> choices[p].Id,
                        lines |-> renderLines(rows, question, choices, p)]
           /\ pending' = pending \ {p}
    /\ effects' = effects \cup {"render"}
    /\ UNCHANGED <<earlierFrame, rows, choices, selectedChoice, pc, ev>>

EarlierHandled(e, m) ==
    /\ ev' = e
    /\ effects' = effects \cup {"PollEvent"}
    /\ choices' = m.choices
    /\ selectedChoice' = m.ret
    /\ pc' = IF m.panic THEN "panic" ELSE "loop"
    /\ UNCHANGED <<earlierFrame, earlier>>

EarlierQuit(e, sel) ==
    /\ ev' = e
    /\ effects' = effects \cup {"PollEvent", "close"}
    /\ selectedChoice' = sel
    /\ pc' = "quit"
    /\ UNCHANGED <<earlierFrame, earlier, choices>>

EarlierKeyUp ==
    /\ pc = "poll"
    /\ \E e \in {EventKey("KeyUp"), EventRune("k"), EventRune("w")} :
           EarlierHandled(e, earlierMoveUp(choices))
    /\ UNCHANGED rows

EarlierKeyDown ==
    /\ pc = "poll"
    /\ \E e \in {EventKey("KeyDown"), EventRune("j"), EventRune("s")} :
           EarlierHandled(e, earlierMoveDown(choices))
    /\ UNCHANGED rows

EarlierConfirm ==
    /\ pc = "poll"
    /\ \E e \in {EventKey("KeyEnter"), EventKey("KeyRight"),
                 EventRune(" "), EventRune("l"), EventRune("d")} :
           EarlierQuit(e, selectedChoice)
    /\ UNCHANGED rows

EarlierAbort ==
    /\ pc = "poll"
    /\ \E e \in {EventKey("KeyEscape"), EventRune("q")} : EarlierQuit(e, nil)
    /\ UNCHANGED rows

\* A key or rune no case names.
EarlierKeyOther ==
    /\ pc = "poll"
    /\ \E e \in {EventKey("KeyTab"), EventRune("x")} :
           EarlierHandled(e, MoveResult(choices, selectedChoice, FALSE))
    /\ UNCHANGED rows

EarlierResize ==
    /\ pc = "poll"
    /\ rows' \in 0..MaxRows
    /\ EarlierHandled(EventResize, MoveResult(choices, selectedChoice, FALSE))

EarlierPickReturn ==
    /\ pc = "quit"
    /\ result' = IF selectedChoice = nil
                 THEN [value |-> <<>>, id |-> 0, err |-> "aborted"]
                 ELSE [value |-> choices[selectedChoice].Value, id |-> 0, err |-> NoError]
    /\ pc' = "returned"
    /\ UNCHANGED <<choicesToPickFrom, question, rows, choices, selectedChoice,
                   searchQuery, ev, effects, screen, inflight, earlier>>

EarlierNext ==
    \/ EarlierPickEntry
    \/ EarlierGoRender
    \/ EarlierRenderRuns
    \/ EarlierKeyUp
    \/ EarlierKeyDown
    \/ EarlierConfirm
    \/ EarlierAbort
    \/ EarlierKeyOther
    \/ EarlierResize
    \/ EarlierPickReturn

EarlierSpec == EarlierInit /\ [][EarlierNext]_vars

\* ------------------------------------------------------------------ claims
ConfirmKeys == {"KeyEnter", "KeyRight"}

AbortKeys == {"KeyEscape", "KeyCtrlC", "KeyLeft"}

BackspaceKeys == {"KeyBackspace", "KeyBackspace2"}

\* The positions of the choices of cs that are not hidden.
VisibleSet(cs) == {p \in 1..Len(cs) : ~cs[p].hidden}

Failure(err) == [value |-> <<>>, id |-> 0, err |-> err]

\* C1: a confirm key followed by a successful return yields the value and id
\* of a choice that is not hidden, and whose value matches the query that was
\* in effect when the confirm key arrived.
ConfirmReturnsVisibleChoice ==
    (pc = "returned" /\ ev.key \in ConfirmKeys /\ result.err = NoError) =>
        \E p \in 1..Len(choices) :
            /\ ~choices[p].hidden
            /\ Contains(choicesToPickFrom[p], searchQuery)
            /\ result.value = choices[p].Value
            /\ result.id = choices[p].Id

ConfirmedUnderFilter ==
    /\ pc = "returned"
    /\ ev.key \in ConfirmKeys
    /\ result.err = NoError
    /\ result.id > 0
    /\ \E p \in 1..Len(choices) : choices[p].hidden

\* C2: every choice keeps the id of its position in the input (0..n-1), and a
\* successful return (value, id) has value = choicesToPickFrom[id].
IdsAreInputPositions ==
    /\ pc # "entry" => Len(choices) = Len(choicesToPickFrom)
    /\ \A p \in 1..Len(choices) :
           choices[p].Id = p - 1 /\ choices[p].Value = choicesToPickFrom[p]
    /\ (pc = "returned" /\ result.err = NoError) =>
           /\ result.id \in 0..(Len(choicesToPickFrom) - 1)
           /\ result.value = choicesToPickFrom[result.id + 1]

ReturnedPastHiddenChoice ==
    /\ pc = "returned"
    /\ result.err = NoError
    /\ result.id > 0
    /\ \E p \in 1..result.id : choices[p].hidden

\* C3: once the choices are built, the choices that are not hidden are exactly
\* those whose value contains the current query as a byte-for-byte substring,
\* whatever edits produced the query.
VisibleSetIsQueryMatches ==
    pc # "entry" =>
        VisibleSet(choices) =
            {p \in 1..Len(choicesToPickFrom) : Contains(choicesToPickFrom[p], searchQuery)}

BackspaceUnhid ==
    /\ pc = "loop"
    /\ ev.key \in BackspaceKeys
    /\ Len(searchQuery) = 1
    /\ VisibleSet(choices) # {}
    /\ \E p \in 1..Len(choices) : choices[p].hidden

\* The selection is the first visible choice, or there is none at all when no
\* choice is visible.
FirstVisibleSelected(cs, sel) ==
    IF VisibleSet(cs) = {}
    THEN sel = nil /\ \A p \in 1..Len(cs) : ~cs[p].Selected
    ELSE LET first == CHOOSE p \in VisibleSet(cs) : \A o \in VisibleSet(cs) : p <= o
         IN  sel = first /\ \A p \in 1..Len(cs) : cs[p].Selected <=> p = first

\* C4: every query edit (a rune appended, or Backspace on a non-empty query)
\* leaves the first visible choice selected, or no selection when every choice
\* is hidden.
QueryEditSelectsFirstVisible ==
    [][(/\ pc = "poll"
        /\ pc' = "loop"
        /\ \/ ev'.key = "KeyRune"
           \/ ev'.key \in BackspaceKeys /\ searchQuery # <<>>)
       => FirstVisibleSelected(choices', selectedChoice')]_vars

EditHidSelectedChoice ==
    /\ pc = "loop"
    /\ ev.key = "KeyRune"
    /\ selectedChoice > 1
    /\ choices[1].hidden
    /\ choices[selectedChoice].Selected

\* Exactly the choice at position p is selected.
OnlySelected(cs, sel, p) ==
    sel = p /\ \A o \in 1..Len(cs) : cs[o].Selected <=> o = p

\* C5: with at least one visible choice, Home selects the first visible choice
\* and End the last, from any selection and under any filter.
HomeEndReachEnds ==
    [][(pc = "poll" /\ pc' = "loop" /\ VisibleSet(choices) # {}) =>
          LET vis == VisibleSet(choices)
              first == CHOOSE p \in vis : \A o \in vis : p <= o
              last == CHOOSE p \in vis : \A o \in vis : o <= p
          IN  /\ ev'.key = "KeyHome" => OnlySelected(choices', selectedChoice', first)
              /\ ev'.key = "KeyEnd" => OnlySelected(choices', selectedChoice', last)]_vars

EndUnderFilter ==
    /\ pc = "loop"
    /\ ev.key = "KeyEnd"
    /\ Cardinality(VisibleSet(choices)) >= 2
    /\ Cardinality(VisibleSet(choices)) < Len(choices)
    /\ selectedChoice # nil
    /\ \A o \in VisibleSet(choices) : o <= selectedChoice

\* C6: Backspace on an empty query changes neither the query, nor any choice's
\* flags, nor selectedChoice; nor does the render that follows it.
BackspaceOnEmptyQueryChangesNothing ==
    [][(/\ searchQuery = <<>>
        /\ \/ pc = "poll" /\ ev'.key \in BackspaceKeys
           \/ pc = "loop" /\ ev.key \in BackspaceKeys)
       => UNCHANGED <<searchQuery, choices, selectedChoice>>]_vars

BackspaceOnEmptyQueryHandled ==
    /\ pc = "loop"
    /\ ev.key \in BackspaceKeys
    /\ searchQuery = <<>>
    /\ selectedChoice > 1

\* C7: with an empty choice list pick returns ErrNoChoice at once: it starts
\* no loop task, renders nothing and polls no event.
EmptyListRejected ==
    Len(choicesToPickFrom) = 0 =>
        /\ pc \in {"entry", "returned"}
        /\ effects = {}
        /\ pc = "returned" => result = Failure(ErrNoChoice)

EmptyListReturned ==
    /\ Len(choicesToPickFrom) = 0
    /\ pc = "returned"
    /\ result.err = ErrNoChoice

\* C8: an abort key ends the session, and the session then fails with
\* ErrNoChoiceSelected and no value, whatever was selected.
AbortFails ==
    ev.key \in AbortKeys =>
        /\ pc \in {"quit", "returned"}
        /\ "close" \in effects
        /\ selectedChoice = nil
        /\ pc = "returned" => result = Failure(ErrNoChoiceSelected)

AbortedWithSelection ==
    /\ pc = "returned"
    /\ ev.key \in AbortKeys
    /\ result.err = ErrNoChoiceSelected
    /\ searchQuery # <<>>
    /\ \E p \in 2..Len(choices) : choices[p].Selected /\ ~choices[p].hidden

\* C9: a confirm key received while no choice is visible ends the session with
\* ErrNoChoiceSelected, and no successful return names a hidden choice.
ConfirmWithNothingVisibleFails ==
    /\ (ev.key \in ConfirmKeys /\ VisibleSet(choices) = {}) =>
           /\ pc \in {"quit", "returned"}
           /\ selectedChoice = nil
           /\ pc = "returned" => result = Failure(ErrNoChoiceSelected)
    /\ (pc = "returned" /\ result.err = NoError) =>
           \A p \in 1..Len(choices) : choices[p].Id = result.id => ~choices[p].hidden

ConfirmedWithNothingVisible ==
    /\ pc = "returned"
    /\ ev.key \in ConfirmKeys
    /\ Len(choices) > 0
    /\ VisibleSet(choices) = {}
    /\ result.err = ErrNoChoiceSelected

\* The number of lines of prompt q: one more than its line breaks.
HeaderLines(q) == 1 + Cardinality({k \in 1..Len(q) : q[k] = "\n"})

\* C10: for the terminal's row count R and the prompt's headerLines >= 1,
\* computePageSize is R - headerLines - 1 when R > headerLines, and R otherwise.
PageSizeAsSpecified ==
    /\ HeaderLines(question) >= 1
    /\ computePageSize(rows, question) =
           IF rows > HeaderLines(question)
           THEN rows - HeaderLines(question) - 1
           ELSE rows

PagedOnShortTerminal ==
    /\ pc = "loop"
    /\ ev.key = "KeyPgDn"
    /\ rows >= 1
    /\ rows <= HeaderLines(question)
    /\ selectedChoice > 1

\* The positions of the choices of cs whose Selected flag is set.
SelectedSet(cs) == {p \in 1..Len(cs) : cs[p].Selected}

\* C11: while the loop waits for the next event, at most one choice is selected
\* and it is visible; one is selected exactly when some choice is visible; and
\* selectedChoice points at it, or is nil when there is none.
OneVisibleSelectionWhilePending ==
    pc = "poll" =>
        /\ Cardinality(SelectedSet(choices)) <= 1
        /\ SelectedSet(choices) \subseteq VisibleSet(choices)
        /\ VisibleSet(choices) # {} => Cardinality(SelectedSet(choices)) = 1
        /\ VisibleSet(choices) = {} => SelectedSet(choices) = {}
        /\ IF SelectedSet(choices) = {}
           THEN selectedChoice = nil
           ELSE selectedChoice \in SelectedSet(choices)

PendingWithHiddenAndSelection ==
    /\ pc = "poll"
    /\ selectedChoice > 1
    /\ choices[1].hidden
    /\ Cardinality(VisibleSet(choices)) >= 2

\* C12 as claimed: in the search-enabled picker a 'k' or 'w' rune moves the
\* selection up by one visible choice, 'j' or 's' moves it down by one, Space,
\* 'l' and 'd' confirm, and 'q' aborts.
LetterKeysActAsTable ==
    [][(pc = "poll" /\ ev'.key = "KeyRune") =>
          LET up == OnKeyUp(Session)
              down == OnKeyDown(Session)
          IN  /\ ev'.rune \in {"k", "w"} =>
                     /\ pc' = "loop"
                     /\ choices' = up.choices
                     /\ selectedChoice' = up.selectedChoice
                     /\ searchQuery' = searchQuery
              /\ ev'.rune \in {"j", "s"} =>
                     /\ pc' = "loop"
                     /\ choices' = down.choices
                     /\ selectedChoice' = down.selectedChoice
                     /\ searchQuery' = searchQuery
              /\ ev'.rune \in {" ", "l", "d"} =>
                     pc' = "quit" /\ UNCHANGED <<choices, selectedChoice, searchQuery>>
              /\ ev'.rune = "q" =>
                     pc' = "quit" /\ selectedChoice' = nil]_vars

\* C12 as amended: every rune key, the letters of the action table among them,
\* is a query edit: its encoding is appended to the query, the flags follow the
\* new query, the first visible choice is selected, and the session goes on.
RuneKeysEditQuery ==
    [][(pc = "poll" /\ ev'.key = "KeyRune") =>
          /\ searchQuery' = searchQuery \o RuneToString(ev'.rune)
          /\ pc' = "loop"
          /\ "close" \notin effects'
          /\ VisibleSet(choices') =
                 {p \in 1..Len(choicesToPickFrom) :
                      Contains(choicesToPickFrom[p], searchQuery')}
          /\ FirstVisibleSelected(choices', selectedChoice')]_vars

LetterKeyTyped ==
    /\ pc = "loop"
    /\ ev.key = "KeyRune"
    /\ ev.rune = "q"
    /\ searchQuery = <<"k", "q">>
    /\ selectedChoice > 1

\* C13 as claimed: when Pick has returned, on whatever path, no screen that
\* was created is left without Fini having been called on it.
SurfaceReleasedOnEveryExit ==
    pc = "done" => screen \in {"none", "finished"}

\* C14: a render the loop starts has completed before the loop polls for the
\* next event, and the choices' flags, the selection and the query change only
\* in the step that handles a received event (or builds the choices), with no
\* render in progress before or after it.
RenderAndMutationSequential ==
    [][/\ pc' = "poll" => inflight' = 0
       /\ <<choices, selectedChoice, searchQuery>>' # <<choices, selectedChoice, searchQuery>>
              => /\ inflight = 0 /\ inflight' = 0
                 /\ \/ pc = "entry"
                    \/ pc = "poll" /\ ev'.type = "EventKey" /\ "PollEvent" \in effects']_vars

EditRenderedThenMoved ==
    /\ pc = "loop"
    /\ ev.key = "KeyRune"
    /\ "render" \in effects
    /\ inflight = 0
    /\ selectedChoice > 1
    /\ choices[1].hidden

\* The screen rows (0-based) on which the drawing d shows option id; a line
\* beyond the screen's last row is not on the screen.
RowsShowing(d, id) ==
    {k - 1 : k \in {j \in 1..Len(d.lines) :
                        /\ j - 1 < d.height
                        /\ d.lines[j] = [kind |-> "option", id |-> id]}}

\* C15 as claimed: whenever the screen has more rows than the prompt has lines,
\* a render puts the selected choice on one of the rows 0..R-1.
SelectedChoiceIsDrawn ==
    (drawn # NoDrawing /\ drawn.height > HeaderLines(question)) =>
        RowsShowing(drawn, drawn.selected) # {}

\* The options render printed, on the screen or past its end.
Printed(d) == SelectSeq(d.lines, LAMBDA l : l.kind = "option")

\* The position of the first choice render printed: the choices before it were
\* skipped (all of them when it printed none).
WindowStart(d) == Len(choices) - Len(Printed(d))

\* C17 as claimed: with capacity = R - headerLines rows for the choices, the
\* window starts at the first choice while the selected position is below
\* capacity, and at selected - capacity + 1 from then on, which puts the
\* selected choice on row R - 1.
WindowFollowsSelection ==
    LET capacity == drawn.height - HeaderLines(question)
    IN  (drawn # NoDrawing /\ capacity >= 1) =>
            IF drawn.selected < capacity
            THEN WindowStart(drawn) = 0
            ELSE /\ WindowStart(drawn) = drawn.selected - capacity + 1
                 /\ RowsShowing(drawn, drawn.selected) = {drawn.height - 1}

\* The signed step the handler of key passes to move.
SignedStep(key) ==
    IF key = "KeyUp" THEN -1
    ELSE IF key = "KeyDown" THEN 1
    ELSE IF key = "KeyHome" THEN -Len(choices)
    ELSE IF key = "KeyEnd" THEN Len(choices)
    ELSE IF key = "KeyPgUp" THEN -computePageSize(rows, question)
    ELSE computePageSize(rows, question)

MoveKeys == {"KeyUp", "KeyDown", "KeyHome", "KeyEnd", "KeyPgUp", "KeyPgDn"}

\* C16: a move with signed step d over the visible choices, the selected one
\* being at index i of L, ends with exactly the visible choice at index
\* min(max(i + d, 0), L - 1) selected and returned; at a boundary that is the
\* choice that was selected.
MoveClampsToVisibleRange ==
    [][(/\ pc = "poll"
        /\ ev'.key \in MoveKeys
        /\ selectedChoice \in VisibleSet(choices)
        /\ choices[selectedChoice].Selected)
       => LET vis == VisibleSet(choices)
              L == Cardinality(vis)
              index(p) == Cardinality({o \in vis : o < p})
              i == index(selectedChoice)
              d == SignedStep(ev'.key)
              target == IF i + d < 0 THEN 0 ELSE IF i + d > L - 1 THEN L - 1 ELSE i + d
              to == CHOOSE p \in vis : index(p) = target
          IN  /\ pc' = "loop"
              /\ OnlySelected(choices', selectedChoice', to)
              /\ \A p \in 1..Len(choices) : choices'[p].hidden = choices[p].hidden]_vars

DownReachedLastChoice ==
    /\ pc = "loop"
    /\ ev.key = "KeyDown"
    /\ searchQuery = <<>>
    /\ Len(choices) = MaxChoices
    /\ selectedChoice = Len(choices)
    /\ choices[selectedChoice].Selected

\* C18: quit is closed by the loop task, in the step that handles the
\* terminating event and ends the task; once it is closed nothing happens but
\* the caller's return, which changes neither the selection, the choices, the
\* query nor the event, and returns what selectedChoice was at the close; and
\* nothing is returned before the close except the empty-list error.
QuitClosedOnceThenFrozen ==
    [][/\ ("close" \notin effects /\ "close" \in effects') =>
              /\ pc = "poll" /\ pc' = "quit"
              /\ ev'.key \in ConfirmKeys \cup AbortKeys
       /\ "close" \in effects =>
              /\ pc = "quit" /\ pc' = "returned"
              /\ UNCHANGED <<choices, selectedChoice, searchQuery, ev, effects>>
              /\ result' = IF selectedChoice = nil
                           THEN Failure(ErrNoChoiceSelected)
                           ELSE [value |-> choices[selectedChoice].Value,
                                 id |-> choices[selectedChoice].Id, err |-> NoError]
       /\ result' # result => ("close" \in effects \/ pc = "entry")]_vars

ClosedThenReturned ==
    /\ pc = "returned"
    /\ "close" \in effects
    /\ ev.key \in ConfirmKeys
    /\ result.err = NoError
    /\ result.id = selectedChoice - 1
    /\ result.id > 0

\* C19: whatever the screen's height and the question's line count, the page
\* size is not negative, and a PageDown moves the selection to no earlier
\* choice, a PageUp to no later one, and neither ends in move's panic.
PageKeysNeverReverse ==
    [][(pc = "poll" /\ ev'.key \in {"KeyPgUp", "KeyPgDn"}) =>
          /\ computePageSize(rows, question) >= 0
          /\ pc' = "loop"
          /\ selectedChoice = nil => selectedChoice' = nil
          /\ (selectedChoice # nil /\ ev'.key = "KeyPgDn") => selectedChoice' >= selectedChoice
          /\ (selectedChoice # nil /\ ev'.key = "KeyPgUp") =>
                 selectedChoice' # nil /\ selectedChoice' <= selectedChoice]_vars

PagedDownUnderTallQuestion ==
    /\ pc = "loop"
    /\ ev.key = "KeyPgDn"
    /\ rows >= 1
    /\ HeaderLines(question) > rows
    /\ selectedChoice > 1

\* C20 as claimed: a Backspace on a query that ends with the encoding of a rune
\* c, q being what precedes it, leaves the query q and the visible set that of q.
BackspaceUndoesAppend ==
    [][(pc = "poll" /\ ev'.key \in BackspaceKeys) =>
          \A c \in Runes :
              LET n == Len(searchQuery) - Len(RuneToString(c))
                  q == SubSeq(searchQuery, 1, n)
              IN  (n >= 0 /\ searchQuery = q \o RuneToString(c)) =>
                      /\ searchQuery' = q
                      /\ VisibleSet(choices') =
                             {p \in 1..Len(choicesToPickFrom) :
                                  Contains(choicesToPickFrom[p], q)}]_vars

====
